---- MODULE Spec2Model ----
(***************************************************************************)
(* Model of the realtime transport core of the chat client:                *)
(* ChatWebSocket (services/websocket.ts), the connection manager that owns *)
(* one WebSocket per chat session, its reconnect policy and its handler    *)
(* registries, together with the WebSocket transport it drives.            *)
(*                                                                         *)
(* The program is single threaded: every method call, transport event and  *)
(* timer callback runs to completion, so each is one action.  The code of  *)
(* a method or callback is a pure operator from the state before to the    *)
(* state after (a record with the fields of the class, the sockets it has  *)
(* created, its pending timers and what it has transmitted); the actions   *)
(* apply these operators to the variables.                                 *)
(*                                                                         *)
(* The second part is ChatInterface (components/ChatInterface.tsx), the    *)
(* component that binds one manager to the selected session and keeps the  *)
(* transcript and the streaming state in useState hooks: its message       *)
(* handler (the protocol dispatcher), the effect on sessionId with its     *)
(* cleanup, and the rendering of queued state updates by react.            *)
(*                                                                         *)
(* The third part is the page around it (pages/Chat.tsx with               *)
(* components/SessionManager.tsx): the list of sessions, the current       *)
(* session id and the delete requests that are in flight.                  *)
(***************************************************************************)
EXTENDS Naturals, Sequences, FiniteSets, TLC

(* ---------------------------------------------------------------------- *)
(* Bounds of the model                                                     *)
(* ---------------------------------------------------------------------- *)

\* sockets one manager may create in a run (new WebSocket(...) calls)
MaxSockets == 2
\* handler registrations (onMessage/onError/onOpen/onClose calls) in a run
MaxRegistered == 2
\* commands transmitted in a run
MaxSends == 2
\* frames handed to handleWebSocketMessage in one behaviour
MaxFrames == 4
\* managers the component constructs in one behaviour (new ChatWebSocket(...) calls)
MaxManagers == 2
\* text frames the server delivers over the sockets of the sessions in one behaviour
MaxDelivered == 2

(* ---------------------------------------------------------------------- *)
(* Constants of the program                                                *)
(* ---------------------------------------------------------------------- *)

\* WebSocket.readyState values
CONNECTING == 0
OPEN == 1
CLOSING == 2
CLOSED == 3

\* this.ws === null; this.ws?.readyState is then undefined
NULL == 0
UNDEFINED == 99

maxReconnectAttempts == 5
reconnectDelay == 1000

\* callbacks a client may register (identity comparable)
Handlers == {"h1", "h2"}

\* frame texts the server may deliver: two well formed, one malformed
WireTexts == {"{\"type\":\"test\"}", "{}", "invalid json{"}

\* frame texts the chat server sends on the socket of a session
ServerTexts ==
    {"{\"type\":\"stream_start\"}",
     "{\"type\":\"stream_token\",\"token\":\"Hello\"}",
     "{\"type\":\"stream_end\",\"message\":{\"role\":\"assistant\",\"content\":\"Hello world\"}}"}

\* commands a client may send
Commands == {[type |-> "message", content |-> "Hello"]}

NoArg == [type |-> "<none>"]

\* the Message objects, the tokens and the frames the server sends
Messages == {[role |-> "user", content |-> "Hi"],
             [role |-> "assistant", content |-> "Hello world"]}

Tokens == {"Hello", " world"}

\* the ids of the ChatSession rows the server holds for the user
SessionIds == {1, 2}

\* Number.prototype.toString on these ids
toString(n) ==
    CASE n = 1 -> "1"
      [] n = 2 -> "2"

\* the session ids the page selects; "" stands for no session selected (null)
Sessions == {toString(n) : n \in SessionIds}

Histories == {<<>>, <<[role |-> "user", content |-> "Hi"],
                      [role |-> "assistant", content |-> "Hi!"]>>}

Frames ==
    {[type |-> "session_info"], [type |-> "stream_start"], [type |-> "stream_error"],
     [type |-> "error"], [type |-> "pong"]}
    \cup {[type |-> "history", messages |-> h] : h \in Histories}
    \cup {[type |-> "message", message |-> m] : m \in Messages}
    \cup {[type |-> "stream_token", token |-> k] : k \in Tokens}
    \cup {[type |-> "stream_end", message |-> m] : m \in Messages}

(* ---------------------------------------------------------------------- *)
(* State                                                                   *)
(* ---------------------------------------------------------------------- *)

VARIABLES
    ws,                     \* this.ws: index into sockets, or NULL
    messageHandlers,        \* the four registries, in registration order
    errorHandlers,
    openHandlers,
    closeHandlers,
    reconnectAttempts,
    isReconnecting,
    isManuallyDisconnected,
    sockets,                \* readyState of every socket created, in creation order
    timers,                 \* delays of the pending setTimeout callbacks
    sent,                   \* <<socket, text>> of every ws.send, in order
    invoked,                \* <<registry, handler, argument>> calls made by the last step
    lastOp,                 \* the call or event the last step ran
    \* history the properties refer to (the code keeps none of it)
    disconnected,           \* disconnect() was called and connect() has not been called since
    run,                    \* the current run of unexpected closes without an open
    dropped,                \* number of commands send() did not transmit
    cleared,                \* clearHandlers() emptied a registry and nothing was registered since
    \* ChatInterface: its useState hooks, each with the value of the last
    \* commit (memoizedState) and the updates that wait for a render
    messages,
    isStreaming,
    streamingContent,
    connected,
    sessionId,              \* the prop; "" while the page does not render the component
    wsRef,                  \* wsRef.current: index into managers, or NULL
    managers,               \* every ChatWebSocket constructed, in construction order
    connectTimers,          \* the managers whose connect timer (100 ms) is pending
    log,                    \* <<call, manager>> made by the last step of the binding
    frames,                 \* number of frames the component was given
    \* SessionManager, the list of sessions of the page
    sessions,               \* ids of the sessions in the list
    loading,                \* the list has not been loaded yet
    deleting,               \* the delete requests in flight, each with the values
                            \* its handleDeleteSession call has closed over
    deleted                 \* ids of the sessions the server has deleted

vars == <<ws, messageHandlers, errorHandlers, openHandlers, closeHandlers,
          reconnectAttempts, isReconnecting, isManuallyDisconnected,
          sockets, timers, sent, invoked, lastOp,
          disconnected, run, dropped, cleared,
          messages, isStreaming, streamingContent, connected,
          sessionId, wsRef, managers, connectTimers, log, frames,
          sessions, loading, deleting, deleted>>

\* the list of sessions and its requests
pageVars == <<sessions, loading, deleting, deleted>>

\* the component and what is counted about it
uiVars == <<messages, isStreaming, streamingContent, connected,
           sessionId, wsRef, managers, connectTimers, log, frames>>

\* the manager of the first part and what is recorded about it
managerVars == <<ws, messageHandlers, errorHandlers, openHandlers, closeHandlers,
                 reconnectAttempts, isReconnecting, isManuallyDisconnected,
                 sockets, timers, sent, invoked, disconnected, run, dropped, cleared>>

\* the state as one record, with nothing invoked yet by the step that starts
Cur ==
    [ws |-> ws, messageHandlers |-> messageHandlers, errorHandlers |-> errorHandlers,
     openHandlers |-> openHandlers, closeHandlers |-> closeHandlers,
     reconnectAttempts |-> reconnectAttempts, isReconnecting |-> isReconnecting,
     isManuallyDisconnected |-> isManuallyDisconnected,
     sockets |-> sockets, timers |-> timers, sent |-> sent, invoked |-> <<>>]

Becomes(s, op) ==
    /\ ws' = s.ws
    /\ messageHandlers' = s.messageHandlers
    /\ errorHandlers' = s.errorHandlers
    /\ openHandlers' = s.openHandlers
    /\ closeHandlers' = s.closeHandlers
    /\ reconnectAttempts' = s.reconnectAttempts
    /\ isReconnecting' = s.isReconnecting
    /\ isManuallyDisconnected' = s.isManuallyDisconnected
    /\ sockets' = s.sockets
    /\ timers' = s.timers
    /\ sent' = s.sent
    /\ invoked' = s.invoked
    /\ lastOp' = op
    /\ UNCHANGED uiVars
    /\ UNCHANGED pageVars

(* ---------------------------------------------------------------------- *)
(* FrameCodec: JSON.stringify / JSON.parse on the texts of the model       *)
(* ---------------------------------------------------------------------- *)

JSONstringify(c) ==
    "{\"type\":\"" \o c.type \o "\",\"content\":\"" \o c.content \o "\"}"

\* ok = FALSE is the SyntaxError JSON.parse throws
JSONparse(text) ==
    CASE text = "{\"type\":\"test\"}" -> [ok |-> TRUE, value |-> [type |-> "test"]]
      [] text = "{}"                  -> [ok |-> TRUE, value |-> [type |-> "<undefined>"]]
      [] text = "{\"type\":\"stream_start\"}" ->
            [ok |-> TRUE, value |-> [type |-> "stream_start"]]
      [] text = "{\"type\":\"stream_token\",\"token\":\"Hello\"}" ->
            [ok |-> TRUE, value |-> [type |-> "stream_token", token |-> "Hello"]]
      [] text = "{\"type\":\"stream_end\",\"message\":{\"role\":\"assistant\",\"content\":\"Hello world\"}}" ->
            [ok |-> TRUE,
             value |-> [type |-> "stream_end",
                        message |-> [role |-> "assistant", content |-> "Hello world"]]]
      [] OTHER                        -> [ok |-> FALSE, value |-> NoArg]

(* ---------------------------------------------------------------------- *)
(* ChatWebSocket                                                           *)
(* ---------------------------------------------------------------------- *)

\* this.ws?.readyState
readyState(s) == IF s.ws = NULL THEN UNDEFINED ELSE s.sockets[s.ws]

\* registry.forEach(handler => handler(arg))
forEach(s, registry, hs, arg) ==
    [s EXCEPT !.invoked = @ \o [i \in 1..Len(hs) |-> <<registry, hs[i], arg>>]]

\* isConnected() that asks only whether there is a socket
isConnected_HasSocket(s) == s.ws # NULL

isConnected(s) == readyState(s) = OPEN

\* connect() that looks for an Open socket only
connect_OpenOnly(s) ==
    IF readyState(s) = OPEN
    THEN s
    ELSE [s EXCEPT !.isManuallyDisconnected = FALSE,
                   !.sockets = Append(@, CONNECTING),
                   !.ws = Len(s.sockets) + 1]

\* connect() that opens a socket whatever the state of the current one
connect_NoGuard(s) ==
    [s EXCEPT !.isManuallyDisconnected = FALSE,
              !.sockets = Append(@, CONNECTING),
              !.ws = Len(s.sockets) + 1]

\* connect() that starts every connection with empty registries
connect_ForgetsHandlers(s) ==
    IF readyState(s) = OPEN \/ readyState(s) = CONNECTING
    THEN s
    ELSE [s EXCEPT !.isManuallyDisconnected = FALSE,
                   !.sockets = Append(@, CONNECTING),
                   !.ws = Len(s.sockets) + 1,
                   !.messageHandlers = <<>>, !.errorHandlers = <<>>,
                   !.openHandlers = <<>>, !.closeHandlers = <<>>]

connect(s) ==
    IF readyState(s) = OPEN \/ readyState(s) = CONNECTING
    THEN s
    ELSE [s EXCEPT !.isManuallyDisconnected = FALSE,
                   !.sockets = Append(@, CONNECTING),
                   !.ws = Len(s.sockets) + 1]

\* onopen that leaves the reconnect bookkeeping as it finds it
onopen_KeepsAttempts(s) == forEach(s, "open", s.openHandlers, NoArg)

onopen(s) ==
    forEach([s EXCEPT !.reconnectAttempts = 0, !.isReconnecting = FALSE],
            "open", s.openHandlers, NoArg)

\* onmessage that hands whatever the parse left to the handlers
onmessage_NoCatch(s, data) ==
    forEach(s, "message", s.messageHandlers, JSONparse(data).value)

onmessage(s, data) ==
    LET r == JSONparse(data)
    IN  IF r.ok THEN forEach(s, "message", s.messageHandlers, r.value)
                ELSE s

\* onerror that treats the error as the loss of the connection
onerror_Reconnects(s) ==
    IF readyState(s) # CLOSED
    THEN [forEach(s, "error", s.errorHandlers, NoArg)
            EXCEPT !.isReconnecting = TRUE,
                   !.timers = Append(@, reconnectDelay)]
    ELSE s

onerror(s) ==
    IF readyState(s) # CLOSED
    THEN forEach(s, "error", s.errorHandlers, NoArg)
    ELSE s

attemptReconnect(s) ==
    IF s.isManuallyDisconnected \/ s.isReconnecting
       \/ s.reconnectAttempts >= maxReconnectAttempts
    THEN s
    ELSE [s EXCEPT !.isReconnecting = TRUE,
                   !.reconnectAttempts = @ + 1,
                   !.timers = Append(@, reconnectDelay * (s.reconnectAttempts + 1))]

\* a callback that does not look at the manual-disconnect flag
reconnectCallback_NoCheck(s) == connect(s)

\* the callback attemptReconnect hands to setTimeout
reconnectCallback(s) ==
    IF ~s.isManuallyDisconnected THEN connect(s) ELSE s

\* onclose that returns at once after a manual disconnect
onclose_SilentWhenManual(s) ==
    IF s.isManuallyDisconnected
    THEN s
    ELSE attemptReconnect(forEach(s, "close", s.closeHandlers, NoArg))

onclose(s) ==
    LET t == forEach(s, "close", s.closeHandlers, NoArg)
    IN  IF ~t.isManuallyDisconnected THEN attemptReconnect(t) ELSE t

\* WebSocket.close() on socket i.  sync: the close event is dispatched from
\* inside close() (MockWebSocket); otherwise the socket goes to CLOSING and
\* the close event is delivered by a later task (browser), and close() on a
\* socket that is already CLOSING or CLOSED does nothing.
wsClose(s, i, sync) ==
    IF sync
    THEN onclose([s EXCEPT !.sockets[i] = CLOSED])
    ELSE IF s.sockets[i] \in {CONNECTING, OPEN}
         THEN [s EXCEPT !.sockets[i] = CLOSING]
         ELSE s

\* disconnect() that drops the handle without closing the socket
disconnect_NoClose(s, sync) ==
    [s EXCEPT !.isManuallyDisconnected = TRUE,
              !.isReconnecting = FALSE,
              !.reconnectAttempts = 0,
              !.ws = NULL]

disconnect(s, sync) ==
    LET a == [s EXCEPT !.isManuallyDisconnected = TRUE,
                       !.isReconnecting = FALSE,
                       !.reconnectAttempts = 0]
    IN  IF a.ws # NULL
        THEN [wsClose(a, a.ws, sync) EXCEPT !.ws = NULL]
        ELSE a

\* send() that asks only whether there is a socket
send_AnySocket(s, message) ==
    IF s.ws # NULL
    THEN [s EXCEPT !.sent = Append(@, <<s.ws, JSONstringify(message)>>)]
    ELSE s

send(s, message) ==
    IF readyState(s) = OPEN
    THEN [s EXCEPT !.sent = Append(@, <<s.ws, JSONstringify(message)>>)]
    ELSE s

onMessage(s, h) == [s EXCEPT !.messageHandlers = Append(@, h)]
onError(s, h) == [s EXCEPT !.errorHandlers = Append(@, h)]
onOpen(s, h) == [s EXCEPT !.openHandlers = Append(@, h)]
onClose(s, h) == [s EXCEPT !.closeHandlers = Append(@, h)]

\* Array.prototype.filter(x => x !== h)
filterOut(hs, h) == SelectSeq(hs, LAMBDA x : x # h)

\* removal of the first registration only (indexOf + splice)
removeFirst(hs, h) ==
    IF \E k \in 1..Len(hs) : hs[k] = h
    THEN LET k == CHOOSE k \in 1..Len(hs) : hs[k] = h /\ \A j \in 1..(k - 1) : hs[j] # h
         IN  SubSeq(hs, 1, k - 1) \o SubSeq(hs, k + 1, Len(hs))
    ELSE hs

removeMessageHandler_First(s, h) == [s EXCEPT !.messageHandlers = removeFirst(@, h)]

removeMessageHandler(s, h) == [s EXCEPT !.messageHandlers = filterOut(@, h)]
removeErrorHandler(s, h) == [s EXCEPT !.errorHandlers = filterOut(@, h)]
removeOpenHandler(s, h) == [s EXCEPT !.openHandlers = filterOut(@, h)]
removeCloseHandler(s, h) == [s EXCEPT !.closeHandlers = filterOut(@, h)]

\* clearHandlers() that forgets the close registry
clearHandlers_KeepsClose(s) ==
    [s EXCEPT !.messageHandlers = <<>>, !.errorHandlers = <<>>,
              !.openHandlers = <<>>]

clearHandlers(s) ==
    [s EXCEPT !.messageHandlers = <<>>, !.errorHandlers = <<>>,
              !.openHandlers = <<>>, !.closeHandlers = <<>>]

(* ---------------------------------------------------------------------- *)
(* Actions: calls of the client                                            *)
(*                                                                         *)
(* Handlers are opaque callbacks: they return normally and do not call     *)
(* back into the manager.                                                  *)
(* ---------------------------------------------------------------------- *)

Op(name, arg) == [op |-> name, arg |-> arg]

Registered ==
    Len(messageHandlers) + Len(errorHandlers) + Len(openHandlers) + Len(closeHandlers)

\* connect() creates a socket unless the current one is Connecting or Open
CreatesSocket(s) == ~(readyState(s) \in {OPEN, CONNECTING})

\* a run of unexpected closes: how many closes of the current socket happened
\* since the last open, and the delays of the timers these closes scheduled.
\* void: a connect() call or an event of a released socket interfered.
NoRun == [closes |-> 0, delays |-> <<>>, void |-> FALSE]
VoidRun == [closes |-> 0, delays |-> <<>>, void |-> TRUE]

\* the delays of the timers a step from s to t has scheduled
Scheduled(s, t) == SubSeq(t.timers, Len(s.timers) + 1, Len(t.timers))

Connect ==
    /\ CreatesSocket(Cur) => Len(sockets) < MaxSockets
    /\ Becomes(connect(Cur), Op("connect", "call"))
    /\ disconnected' = FALSE
    /\ run' = IF CreatesSocket(Cur) /\ run.closes # 0 THEN VoidRun ELSE run
    /\ UNCHANGED <<dropped, cleared>>

Disconnect ==
    \E sync \in BOOLEAN :
        /\ Becomes(disconnect(Cur, sync), Op("disconnect", readyState(Cur)))
        /\ disconnected' = TRUE
        /\ run' = NoRun
        /\ UNCHANGED <<dropped, cleared>>

Send ==
    \E c \in Commands :
        /\ Len(sent) + dropped < MaxSends
        /\ Becomes(send(Cur, c), Op("send", JSONstringify(c)))
        /\ dropped' = IF send(Cur, c).sent = sent THEN dropped + 1 ELSE dropped
        /\ UNCHANGED <<disconnected, run, cleared>>

Register(s, op) ==
    /\ Registered < MaxRegistered
    /\ Becomes(s, op)
    /\ cleared' = FALSE
    /\ UNCHANGED <<disconnected, run, dropped>>

OnMessage == \E h \in Handlers : Register(onMessage(Cur, h), Op("onMessage", h))

OnError == \E h \in Handlers : Register(onError(Cur, h), Op("onError", h))

OnOpen == \E h \in Handlers : Register(onOpen(Cur, h), Op("onOpen", h))

OnClose == \E h \in Handlers : Register(onClose(Cur, h), Op("onClose", h))

\* arg: the handler, and how many entries of the registry the call removed
Removal(h, before, after) == [h |-> h, n |-> Len(before) - Len(after)]

Unregister(s, op) ==
    /\ Becomes(s, op)
    /\ UNCHANGED <<disconnected, run, dropped, cleared>>

RemoveMessageHandler ==
    \E h \in Handlers :
        LET s == removeMessageHandler(Cur, h)
        IN  Unregister(s, Op("removeMessageHandler",
                             Removal(h, messageHandlers, s.messageHandlers)))

RemoveErrorHandler ==
    \E h \in Handlers :
        LET s == removeErrorHandler(Cur, h)
        IN  Unregister(s, Op("removeErrorHandler",
                             Removal(h, errorHandlers, s.errorHandlers)))

RemoveOpenHandler ==
    \E h \in Handlers :
        LET s == removeOpenHandler(Cur, h)
        IN  Unregister(s, Op("removeOpenHandler",
                             Removal(h, openHandlers, s.openHandlers)))

RemoveCloseHandler ==
    \E h \in Handlers :
        LET s == removeCloseHandler(Cur, h)
        IN  Unregister(s, Op("removeCloseHandler",
                             Removal(h, closeHandlers, s.closeHandlers)))

ClearHandlers ==
    /\ Becomes(clearHandlers(Cur), Op("clearHandlers", "call"))
    /\ cleared' = (cleared \/ Registered > 0)
    /\ UNCHANGED <<disconnected, run, dropped>>

(* ---------------------------------------------------------------------- *)
(* Actions: events of the transport and timers                             *)
(* ---------------------------------------------------------------------- *)

\* the connection of socket i is established
TransportOpen ==
    \E i \in 1..Len(sockets) :
        /\ sockets[i] = CONNECTING
        /\ Becomes(onopen([Cur EXCEPT !.sockets[i] = OPEN]), Op("open", i))
        /\ run' = NoRun
        /\ UNCHANGED <<disconnected, dropped, cleared>>

\* a text frame arrives on socket i; the transport dispatches message events
\* only while the socket is OPEN
TransportMessage ==
    \E i \in 1..Len(sockets), data \in WireTexts :
        /\ sockets[i] = OPEN
        /\ Becomes(onmessage(Cur, data), Op("message", data))
        /\ UNCHANGED <<disconnected, run, dropped, cleared>>

\* an error event is dispatched at socket i, whatever its readyState: before
\* the close event of a failed connection (socket already CLOSED, also one
\* the manager has released) or on its own.  onerror looks at this.ws only.
TransportError ==
    \E i \in 1..Len(sockets) :
        /\ Becomes(onerror(Cur), Op("error", i))
        /\ UNCHANGED <<disconnected, run, dropped, cleared>>

\* the connection of socket i is closed (lost, refused, or closing handshake done)
CloseEvent(i) ==
    LET s == [Cur EXCEPT !.sockets[i] = CLOSED]
        t == onclose(s)
    IN  /\ i <= Len(sockets)
        /\ sockets[i] \in {CONNECTING, OPEN, CLOSING}
        /\ Becomes(t, Op("close", i))
        /\ run' = IF run.void THEN run
                  ELSE IF i = ws
                       THEN [closes |-> run.closes + 1,
                             delays |-> run.delays \o Scheduled(s, t),
                             void |-> FALSE]
                       ELSE IF Scheduled(s, t) # <<>> THEN VoidRun ELSE run
        /\ UNCHANGED <<disconnected, dropped, cleared>>

TransportClose == \E i \in 1..Len(sockets) : CloseEvent(i)

Remove(seq, k) == [j \in 1..(Len(seq) - 1) |-> IF j < k THEN seq[j] ELSE seq[j + 1]]

\* a pending reconnect timer fires
TimerFire ==
    \E k \in 1..Len(timers) :
        LET s == [Cur EXCEPT !.timers = Remove(@, k)]
        IN  /\ (~s.isManuallyDisconnected /\ CreatesSocket(s)) => Len(sockets) < MaxSockets
            /\ Becomes(reconnectCallback(s), Op("timer", timers[k]))
            /\ UNCHANGED <<disconnected, run, dropped, cleared>>

(* ---------------------------------------------------------------------- *)
(* ChatInterface: useState hooks (react 18, concurrent root)               *)
(* ---------------------------------------------------------------------- *)

\* The project uses React 18 (README), where a state update gets the lane of the
\* event that makes it and a render works off the updates of its lanes only.

\* useState(initial): the state of the last commit, and the updates that have
\* not been rendered yet, queued behind the state they apply to
useState(initial) == [memoizedState |-> initial, baseState |-> initial, queue |-> <<>>]

\* the kinds of argument the component passes to a state setter
Value(v) == [op |-> "value", arg |-> v]            \* setX(v)
Appended(m) == [op |-> "append", arg |-> m]        \* setX(prev => [...prev, m])
Concat(k) == [op |-> "concat", arg |-> k]          \* setX(prev => prev + k)

basicStateReducer(state, action) ==
    CASE action.op = "value" -> action.arg
      [] action.op = "append" -> Append(state, action.arg)
      [] action.op = "concat" -> state \o action.arg

\* the setter of a hook, called at the priority (lane) of the running event:
\* "sync" inside flushSync, "default" in a WebSocket event, a timer or an effect
setState(hook, lane, action) ==
    [hook EXCEPT !.queue = Append(@, [lane |-> lane, action |-> action])]

\* a render at the given lanes works off the queue of a hook in order; an update
\* of another lane is skipped and stays queued, together with every update
\* behind it (those are applied now and once more on top of the skipped one)
RECURSIVE updateQueue(_, _, _, _, _)
updateQueue(queue, lanes, newState, newBaseState, newBaseQueue) ==
    IF queue = <<>>
    THEN [memoizedState |-> newState,
          baseState |-> IF newBaseQueue = <<>> THEN newState ELSE newBaseState,
          queue |-> newBaseQueue]
    ELSE LET update == Head(queue)
         IN  IF update.lane \in lanes \cup {"none"}
             THEN updateQueue(Tail(queue), lanes,
                              basicStateReducer(newState, update.action),
                              newBaseState,
                              IF newBaseQueue = <<>> THEN <<>>
                              ELSE Append(newBaseQueue, [update EXCEPT !.lane = "none"]))
             ELSE updateQueue(Tail(queue), lanes, newState,
                              IF newBaseQueue = <<>> THEN newState ELSE newBaseState,
                              Append(newBaseQueue, update))

updateReducer(hook, lanes) ==
    updateQueue(hook.queue, lanes, hook.baseState, hook.baseState, <<>>)

\* the component as one record, with nothing logged yet by the step that starts
Comp ==
    [sessionId |-> sessionId, messages |-> messages, isStreaming |-> isStreaming,
     streamingContent |-> streamingContent, connected |-> connected,
     wsRef |-> wsRef, managers |-> managers, connectTimers |-> connectTimers,
     log |-> <<>>]

\* render and commit the component at the given lanes
render(c, lanes) ==
    [c EXCEPT !.messages = updateReducer(@, lanes),
              !.isStreaming = updateReducer(@, lanes),
              !.streamingContent = updateReducer(@, lanes),
              !.connected = updateReducer(@, lanes)]

\* flushSync(fn), c being the component after fn has run: the updates of the
\* sync lane are rendered and committed before flushSync returns
flushSync(c) == render(c, {"sync"})

\* the value a hook has once every queued update is rendered
Latest(hook) == updateReducer(hook, {"sync", "default"}).memoizedState

Pending(c) ==
    \/ c.messages.queue # <<>>
    \/ c.isStreaming.queue # <<>>
    \/ c.streamingContent.queue # <<>>
    \/ c.connected.queue # <<>>

(* ---------------------------------------------------------------------- *)
(* ChatInterface: ProtocolDispatcher                                       *)
(* ---------------------------------------------------------------------- *)

\* the cases of the switch in handleWebSocketMessage

\* a history frame that is added to what the transcript holds
case_history_Appends(c, message) ==
    [c EXCEPT !.messages = setState(@, "default",
                                    Value(Latest(c.messages) \o message.messages))]

case_history(c, message) ==
    [c EXCEPT !.messages = setState(@, "default", Value(message.messages))]

case_message(c, message) ==
    [c EXCEPT !.messages = setState(@, "default", Appended(message.message))]

\* a stream_start case that finalizes the buffer of an unfinished stream
case_stream_start_FinalizesStale(c, message) ==
    [c EXCEPT !.messages = IF Latest(c.isStreaming)
                           THEN setState(@, "default",
                                         Appended([role |-> "assistant",
                                                   content |-> Latest(c.streamingContent)]))
                           ELSE @,
              !.isStreaming = setState(@, "default", Value(TRUE)),
              !.streamingContent = setState(@, "default", Value(""))]

case_stream_start(c, message) ==
    [c EXCEPT !.isStreaming = setState(@, "default", Value(TRUE)),
              !.streamingContent = setState(@, "default", Value(""))]

case_stream_token(c, message) ==
    flushSync([c EXCEPT !.streamingContent = setState(@, "sync", Concat(message.token))])

\* a stream_end case that finalizes what was accumulated locally
case_stream_end_FromBuffer(c, message) ==
    [c EXCEPT !.messages = setState(@, "default",
                                    Appended([role |-> "assistant",
                                              content |-> Latest(c.streamingContent)])),
              !.isStreaming = setState(@, "default", Value(FALSE)),
              !.streamingContent = setState(@, "default", Value(""))]

case_stream_end(c, message) ==
    [c EXCEPT !.messages = setState(@, "default", Appended(message.message)),
              !.isStreaming = setState(@, "default", Value(FALSE)),
              !.streamingContent = setState(@, "default", Value(""))]

\* a stream_error case that keeps what was buffered as a message
case_stream_error_KeepsPartial(c, message) ==
    [c EXCEPT !.messages = setState(@, "default",
                                    Appended([role |-> "assistant",
                                              content |-> Latest(c.streamingContent)])),
              !.isStreaming = setState(@, "default", Value(FALSE)),
              !.streamingContent = setState(@, "default", Value(""))]

case_stream_error(c, message) ==
    [c EXCEPT !.isStreaming = setState(@, "default", Value(FALSE)),
              !.streamingContent = setState(@, "default", Value(""))]

\* a handler for which an error frame ends the stream, as stream_error does
handleWebSocketMessage_ErrorEndsStream(c, message) ==
    CASE message.type = "session_info" -> c
      [] message.type = "history" -> case_history(c, message)
      [] message.type = "message" -> case_message(c, message)
      [] message.type = "stream_start" -> case_stream_start(c, message)
      [] message.type = "stream_token" -> case_stream_token(c, message)
      [] message.type = "stream_end" -> case_stream_end(c, message)
      [] message.type = "stream_error" -> case_stream_error(c, message)
      [] message.type = "error" -> case_stream_error(c, message)
      [] OTHER -> c

handleWebSocketMessage(c, message) ==
    CASE message.type = "session_info" -> c
      [] message.type = "history" -> case_history(c, message)
      [] message.type = "message" -> case_message(c, message)
      [] message.type = "stream_start" -> case_stream_start(c, message)
      [] message.type = "stream_token" -> case_stream_token(c, message)
      [] message.type = "stream_end" -> case_stream_end(c, message)
      [] message.type = "stream_error" -> case_stream_error(c, message)
      [] message.type = "error" -> c
      [] OTHER -> c

\* the component becomes c
Commits(c) ==
    /\ messages' = c.messages
    /\ isStreaming' = c.isStreaming
    /\ streamingContent' = c.streamingContent
    /\ connected' = c.connected
    /\ sessionId' = c.sessionId
    /\ wsRef' = c.wsRef
    /\ managers' = c.managers
    /\ connectTimers' = c.connectTimers
    /\ log' = c.log

\* the component becomes c, the list of sessions stays as it is
Shows(c) ==
    /\ Commits(c)
    /\ UNCHANGED pageVars

\* the message handler is called with a decoded frame
HandleWebSocketMessage ==
    \E message \in Frames :
        /\ frames < MaxFrames
        /\ Shows(handleWebSocketMessage(Comp, message))
        /\ frames' = frames + 1
        /\ lastOp' = Op("handleWebSocketMessage", message)
        /\ UNCHANGED managerVars

\* the scheduler task of react renders what is queued
Render ==
    /\ Pending(Comp)
    /\ Shows(render(Comp, {"sync", "default"}))
    /\ lastOp' = Op("render", "task")
    /\ UNCHANGED <<frames, managerVars>>

(* ---------------------------------------------------------------------- *)
(* ChatInterface: SessionBinding (the effect on sessionId)                 *)
(* ---------------------------------------------------------------------- *)

\* new ChatWebSocket(sessionId)
ChatWebSocket(id) ==
    [sessionId |-> id, ws |-> NULL,
     messageHandlers |-> <<>>, errorHandlers |-> <<>>,
     openHandlers |-> <<>>, closeHandlers |-> <<>>,
     reconnectAttempts |-> 0, isReconnecting |-> FALSE,
     isManuallyDisconnected |-> FALSE,
     sockets |-> <<>>, timers |-> <<>>, sent |-> <<>>, invoked |-> <<>>]

\* one call of a handler the effect has registered
call(c, x) ==
    CASE x[2] = "handleWebSocketMessage" -> handleWebSocketMessage(c, x[3])
      [] x[2] = "setConnected(true)" ->
            [c EXCEPT !.connected = setState(@, "default", Value(TRUE))]
      [] x[2] = "setConnected(false)" ->
            [c EXCEPT !.connected = setState(@, "default", Value(FALSE))]
      [] OTHER -> c

RECURSIVE runHandlers(_, _)
runHandlers(c, invoked_) ==
    IF invoked_ = <<>> THEN c ELSE runHandlers(call(c, Head(invoked_)), Tail(invoked_))

\* manager k becomes s, and the handlers s has invoked on the way are run
Manager(c, k, s) ==
    runHandlers([c EXCEPT !.managers[k] = [s EXCEPT !.invoked = <<>>]], s.invoked)

Did(c, name, k) == [c EXCEPT !.log = Append(@, <<name, k>>)]

\* cleanup that disconnects the manager with its handlers still registered
cleanup_KeepsHandlers(c, k, sync) ==
    LET a == Did([c EXCEPT !.connectTimers = @ \ {k}], "clearTimeout", k)
        w == a.wsRef
    IN  IF w # NULL
        THEN LET d == Did(Manager(a, w, disconnect(a.managers[w], sync)), "disconnect", w)
             IN  Did([d EXCEPT !.wsRef = NULL], "wsRef.current = null", w)
        ELSE a

\* cleanup that leaves the connect timer running
cleanup_KeepsTimer(c, k, sync) ==
    LET w == c.wsRef
    IN  IF w # NULL
        THEN LET b == Did(Manager(c, w, clearHandlers(c.managers[w])), "clearHandlers", w)
                 d == Did(Manager(b, w, disconnect(b.managers[w], sync)), "disconnect", w)
             IN  Did([d EXCEPT !.wsRef = NULL], "wsRef.current = null", w)
        ELSE c

\* cleanup that drops the reference without disconnecting
cleanup_NoDisconnect(c, k, sync) ==
    LET a == Did([c EXCEPT !.connectTimers = @ \ {k}], "clearTimeout", k)
        w == a.wsRef
    IN  IF w # NULL
        THEN LET b == Did(Manager(a, w, clearHandlers(a.managers[w])), "clearHandlers", w)
             IN  Did([b EXCEPT !.wsRef = NULL], "wsRef.current = null", w)
        ELSE a

\* the function the effect returns; k is the manager this run of the effect
\* has constructed (the ws and connectTimer of its closure)
cleanup(c, k, sync) ==
    LET a == Did([c EXCEPT !.connectTimers = @ \ {k}], "clearTimeout", k)
        w == a.wsRef
    IN  IF w # NULL
        THEN LET b == Did(Manager(a, w, clearHandlers(a.managers[w])), "clearHandlers", w)
                 d == Did(Manager(b, w, disconnect(b.managers[w], sync)), "disconnect", w)
             IN  Did([d EXCEPT !.wsRef = NULL], "wsRef.current = null", w)
        ELSE a

\* the effect
effect(c, sync) ==
    IF c.sessionId = ""
    THEN c
    ELSE LET a == [c EXCEPT !.messages = setState(@, "default", Value(<<>>)),
                            !.streamingContent = setState(@, "default", Value("")),
                            !.isStreaming = setState(@, "default", Value(FALSE))]
             w == a.wsRef
             b == IF w # NULL
                  THEN Did([Did(Manager(a, w, disconnect(a.managers[w], sync)),
                                "disconnect", w)
                              EXCEPT !.wsRef = NULL],
                           "wsRef.current = null", w)
                  ELSE a
             k == Len(b.managers) + 1
             d == Did([b EXCEPT !.managers = Append(@, ChatWebSocket(c.sessionId)),
                                !.wsRef = k],
                      "new ChatWebSocket", k)
             e == Did([d EXCEPT !.managers[k] =
                          onMessage(@, "handleWebSocketMessage")], "onMessage", k)
             f == Did([e EXCEPT !.managers[k] =
                          onOpen(@, "setConnected(true)")], "onOpen", k)
             g == Did([f EXCEPT !.managers[k] =
                          onClose(@, "setConnected(false)")], "onClose", k)
             h == Did([g EXCEPT !.managers[k] =
                          onError(@, "console.error")], "onError", k)
         IN  Did([h EXCEPT !.connectTimers = @ \cup {k}], "setTimeout", k)

\* the state of a component that has just been created
useStates(c) ==
    [c EXCEPT !.messages = useState(<<>>),
              !.isStreaming = useState(FALSE),
              !.streamingContent = useState(""),
              !.connected = useState(FALSE),
              !.wsRef = NULL]

\* the page starts to render <ChatInterface sessionId={id}/>: the effect runs;
\* under StrictMode in development react runs it, cleans it up and runs it again
Mount ==
    \E id \in Sessions, sync \in BOOLEAN, strict \in BOOLEAN :
        LET a == effect([useStates(Comp) EXCEPT !.sessionId = id], sync)
            b == effect(cleanup(a, Len(a.managers), sync), sync)
        IN  /\ sessionId = ""
            /\ Len(managers) + (IF strict THEN 2 ELSE 1) <= MaxManagers
            /\ Shows(IF strict THEN b ELSE a)
            /\ lastOp' = Op("mount", [sessionId |-> id, strict |-> strict])
            /\ UNCHANGED <<frames, managerVars>>

\* the prop changes from one session to another: react runs the cleanup of the
\* last run of the effect, then the effect
SessionChange ==
    \E id \in Sessions, sync \in BOOLEAN :
        /\ sessionId # ""
        /\ id # sessionId
        /\ Len(managers) < MaxManagers
        /\ Shows(effect([cleanup(Comp, Len(managers), sync) EXCEPT !.sessionId = id], sync))
        /\ lastOp' = Op("sessionId", id)
        /\ UNCHANGED <<frames, managerVars>>

\* the page stops rendering the component
Unmount ==
    \E sync \in BOOLEAN :
        /\ sessionId # ""
        /\ Shows([useStates(cleanup(Comp, Len(managers), sync)) EXCEPT !.sessionId = ""])
        /\ lastOp' = Op("unmount", "call")
        /\ UNCHANGED <<frames, managerVars>>

\* a connect timer fires: ws.connect() on the manager of its closure
ConnectTimer ==
    \E k \in connectTimers :
        /\ CreatesSocket(managers[k]) => Len(managers[k].sockets) < MaxSockets
        /\ Shows(Manager([Comp EXCEPT !.connectTimers = @ \ {k}], k, connect(managers[k])))
        /\ lastOp' = Op("connectTimer", k)
        /\ UNCHANGED <<frames, managerVars>>

\* transport events and reconnect timers of manager k
SocketOpen ==
    \E k \in 1..Len(managers) :
        \E i \in 1..Len(managers[k].sockets) :
            /\ managers[k].sockets[i] = CONNECTING
            /\ Shows(Manager(Comp, k, onopen([managers[k] EXCEPT !.sockets[i] = OPEN])))
            /\ lastOp' = Op("open", <<k, i>>)
            /\ UNCHANGED <<frames, managerVars>>

SocketClose ==
    \E k \in 1..Len(managers) :
        \E i \in 1..Len(managers[k].sockets) :
            /\ managers[k].sockets[i] \in {CONNECTING, OPEN, CLOSING}
            /\ Shows(Manager(Comp, k, onclose([managers[k] EXCEPT !.sockets[i] = CLOSED])))
            /\ lastOp' = Op("close", <<k, i>>)
            /\ UNCHANGED <<frames, managerVars>>

ReconnectTimer ==
    \E k \in 1..Len(managers) :
        \E j \in 1..Len(managers[k].timers) :
            LET s == [managers[k] EXCEPT !.timers = Remove(@, j)]
            IN  /\ (~s.isManuallyDisconnected /\ CreatesSocket(s))
                      => Len(s.sockets) < MaxSockets
                /\ Shows(Manager(Comp, k, reconnectCallback(s)))
                /\ lastOp' = Op("reconnectTimer", <<k, managers[k].timers[j]>>)
                /\ UNCHANGED <<frames, managerVars>>

\* a text frame of the server arrives on an open socket of manager k
SocketMessage ==
    \E k \in 1..Len(managers), data \in ServerTexts :
        \E i \in 1..Len(managers[k].sockets) :
            /\ managers[k].sockets[i] = OPEN
            /\ frames < MaxDelivered
            /\ Shows(Manager(Comp, k, onmessage(managers[k], data)))
            /\ frames' = frames + 1
            /\ lastOp' = Op("message", <<k, i, data>>)
            /\ UNCHANGED managerVars

RECURSIVE TotalSent(_)
TotalSent(ms) ==
    IF ms = <<>> THEN 0 ELSE Len(Head(ms).sent) + TotalSent(Tail(ms))

\* handleSendMessage of the last render, with a command typed into the input
handleSendMessage(c, command) ==
    IF c.wsRef = NULL \/ c.isStreaming.memoizedState
    THEN c
    ELSE Manager(c, c.wsRef, send(c.managers[c.wsRef], command))

\* the input area of the last render lets the user send
InputEnabled(c) == c.connected.memoizedState /\ ~c.isStreaming.memoizedState

\* the user sends what the input holds (button or Enter key)
SendMessage ==
    \E command \in Commands :
        LET c == handleSendMessage(Comp, command)
        IN  /\ sessionId # ""
            /\ InputEnabled(Comp)
            /\ TotalSent(managers) + dropped < MaxSends
            /\ Shows(c)
            /\ dropped' = IF TotalSent(c.managers) = TotalSent(managers)
                          THEN dropped + 1 ELSE dropped
            /\ lastOp' = Op("handleSendMessage", JSONstringify(command))
            /\ UNCHANGED <<frames, ws, messageHandlers, errorHandlers, openHandlers,
                           closeHandlers, reconnectAttempts, isReconnecting,
                           isManuallyDisconnected, sockets, timers, sent, invoked,
                           disconnected, run, cleared>>

(* ---------------------------------------------------------------------- *)
(* Chat page: SessionManager and the current session id                    *)
(* ---------------------------------------------------------------------- *)

\* The state of the page is taken as rendered at once: a handler sees the
\* currentSessionId and the sessions of the render in which it was created.

\* setCurrentSessionId(id) of the page and the commit that follows: the
\* component is mounted, gets another sessionId, or is unmounted; "" is null
setCurrentSessionId(c, id, sync) ==
    IF id = c.sessionId
    THEN c
    ELSE IF id = ""
         THEN [useStates(cleanup(c, Len(c.managers), sync)) EXCEPT !.sessionId = ""]
         ELSE IF c.sessionId = ""
              THEN effect([useStates(c) EXCEPT !.sessionId = id], sync)
              ELSE effect([cleanup(c, Len(c.managers), sync) EXCEPT !.sessionId = id], sync)

\* handleSessionSelect, the onSessionSelect of SessionManager
handleSessionSelect(c, id, sync) == setCurrentSessionId(c, id, sync)

\* what handleDeleteSession(n) does once its request has resolved; r holds the
\* sessionId it was called with and the currentSessionId of its closure
afterDelete(c, r, sync) ==
    IF r.currentSessionId = toString(r.sessionId)
    THEN handleSessionSelect(c, "", sync)
    ELSE c

\* loadSessions: the list request of the mount resolves
LoadSessions ==
    /\ loading
    /\ sessions' = SessionIds
    /\ loading' = FALSE
    /\ lastOp' = Op("loadSessions", "resolved")
    /\ UNCHANGED <<deleting, deleted, uiVars, managerVars>>

\* the user clicks a session of the list
SelectSession ==
    \E n \in sessions, sync \in BOOLEAN :
        /\ ~loading
        /\ toString(n) # sessionId
        /\ Len(managers) < MaxManagers
        /\ Commits(handleSessionSelect(Comp, toString(n), sync))
        /\ lastOp' = Op("handleSessionSelect", toString(n))
        /\ UNCHANGED <<frames, managerVars, pageVars>>

\* the user clicks the delete button of a session and confirms: the request
\* is sent, handleDeleteSession waits for it
DeleteSession ==
    \E n \in sessions :
        /\ ~loading
        /\ deleting' = deleting \cup {[sessionId |-> n,
                                        currentSessionId |-> sessionId,
                                        sessions |-> sessions]}
        /\ lastOp' = Op("handleDeleteSession", n)
        /\ UNCHANGED <<sessions, loading, deleted, uiVars, managerVars>>

\* the server has deleted the session: handleDeleteSession goes on
DeleteResolved ==
    \E r \in deleting, sync \in BOOLEAN :
        /\ r.sessionId \notin deleted
        /\ deleting' = deleting \ {r}
        /\ deleted' = deleted \cup {r.sessionId}
        /\ sessions' = r.sessions \ {r.sessionId}
        /\ Commits(afterDelete(Comp, r, sync))
        /\ lastOp' = Op("deleted", r.sessionId)
        /\ UNCHANGED <<loading, frames, managerVars>>

\* the request fails (the session is gone already, or the network): the
\* handler logs the error
DeleteRejected ==
    \E r \in deleting :
        /\ deleting' = deleting \ {r}
        /\ lastOp' = Op("deleteFailed", r.sessionId)
        /\ UNCHANGED <<sessions, loading, deleted, uiVars, managerVars>>

(* ---------------------------------------------------------------------- *)
(* Specifications                                                          *)
(* ---------------------------------------------------------------------- *)

\* new ChatWebSocket(sessionId)
Init ==
    /\ ws = NULL
    /\ messageHandlers = <<>>
    /\ errorHandlers = <<>>
    /\ openHandlers = <<>>
    /\ closeHandlers = <<>>
    /\ reconnectAttempts = 0
    /\ isReconnecting = FALSE
    /\ isManuallyDisconnected = FALSE
    /\ sockets = <<>>
    /\ timers = <<>>
    /\ sent = <<>>
    /\ invoked = <<>>
    /\ lastOp = Op("new", "call")
    /\ disconnected = FALSE
    /\ run = NoRun
    /\ dropped = 0
    /\ cleared = FALSE
    /\ messages = useState(<<>>)
    /\ isStreaming = useState(FALSE)
    /\ streamingContent = useState("")
    /\ connected = useState(FALSE)
    /\ sessionId = ""
    /\ wsRef = NULL
    /\ managers = <<>>
    /\ connectTimers = {}
    /\ log = <<>>
    /\ frames = 0
    /\ sessions = {}
    /\ loading = TRUE
    /\ deleting = {}
    /\ deleted = {}

\* the connection and everything that reaches the handlers
Lifecycle ==
    \/ Connect
    \/ Disconnect
    \/ TransportOpen
    \/ TransportMessage
    \/ TransportError
    \/ TransportClose
    \/ TimerFire

Next ==
    \/ Lifecycle
    \/ OnMessage
    \/ OnError
    \/ OnOpen
    \/ OnClose
    \/ RemoveMessageHandler
    \/ RemoveErrorHandler
    \/ RemoveOpenHandler
    \/ RemoveCloseHandler
    \/ ClearHandlers

\* a manager with its handler registries: every method but send()
Spec == Init /\ [][Next]_vars

NextSend ==
    \/ Lifecycle
    \/ Send

\* a manager that sends commands (its registries stay empty)
SpecSend == Init /\ [][NextSend]_vars

NextDispatch ==
    \/ HandleWebSocketMessage
    \/ Render

\* the component with the frames its message handler is given
SpecDispatch == Init /\ [][NextDispatch]_vars

NextBinding ==
    \/ Mount
    \/ SessionChange
    \/ Unmount
    \/ ConnectTimer
    \/ SocketOpen
    \/ SocketClose
    \/ ReconnectTimer
    \/ Render

\* the component bound to the session the page selects, with its managers
SpecBinding == Init /\ [][NextBinding]_vars

NextReconnect ==
    \/ Mount
    \/ ConnectTimer
    \/ SocketOpen
    \/ SocketMessage
    \/ SocketClose
    \/ ReconnectTimer
    \/ Render
    \/ SendMessage

\* the component of a page that stays on the session it has selected: the
\* connection is lost and made again, the server sends frames, the user sends
SpecReconnect == Init /\ [][NextReconnect]_vars

NextSwitch ==
    \/ Mount
    \/ SessionChange
    \/ ConnectTimer
    \/ SocketOpen
    \/ SocketMessage
    \/ SocketClose
    \/ Render

\* the component of a page that goes from session to session, each of them
\* left before a reconnect delay (1 s at least) has passed
SpecSwitch == Init /\ [][NextSwitch]_vars

NextPage ==
    \/ LoadSessions
    \/ SelectSession
    \/ DeleteSession
    \/ DeleteResolved
    \/ DeleteRejected
    \/ ConnectTimer
    \/ SocketOpen

\* the page with its list of sessions: the user selects and deletes sessions
SpecPage == Init /\ [][NextPage]_vars

\* the closing handshake that close() started on socket i completes (or times
\* out): the transport delivers the close event of every CLOSING socket
ClosingHandshake(i) ==
    /\ i <= Len(sockets)
    /\ sockets[i] = CLOSING
    /\ CloseEvent(i)

NextClose ==
    \/ Lifecycle
    \/ OnClose
    \/ RemoveCloseHandler
    \/ ClearHandlers

\* a manager with its close handlers, on a transport that completes every
\* closing handshake
FairSpec ==
    /\ Init
    /\ [][NextClose]_vars
    /\ \A i \in 1..MaxSockets : WF_vars(ClosingHandshake(i))

(* ---------------------------------------------------------------------- *)
(* Properties                                                              *)
(* ---------------------------------------------------------------------- *)

Range(seq) == {seq[k] : k \in 1..Len(seq)}

Min(a, b) == IF a < b THEN a ELSE b

\* a run of unexpected closes is under way and nothing interfered with it
InRun == ~run.void /\ run.closes >= 1

\* C1: after an unexpected close the manager recovers on its own: while fewer
\* than 5 reconnect attempts have failed (the run counts the first close and
\* at most 4 failed attempts) and the current socket is closed, a reconnect
\* timer is pending, so that a further connect attempt is made without any
\* connect() call.
C1_RecoversOnItsOwn ==
    (InRun /\ run.closes <= maxReconnectAttempts /\ readyState(Cur) = CLOSED)
        => timers # <<>>

\* C2: for n consecutive unexpected closes with no open in between the timers
\* scheduled have the delays 1x, 2x, ..., nx baseDelay in this order, up to
\* 5x, and no sixth timer is scheduled.
C2_DelaySequence ==
    InRun => run.delays = [k \in 1..Min(run.closes, maxReconnectAttempts)
                              |-> k * reconnectDelay]

\* C3: connect() called while the current socket is Connecting or Open is a
\* no-op: no socket is created and the socket handle, the manual-disconnect
\* flag and the reconnect bookkeeping stay as they are.
C3_ConnectIsNoOp ==
    [][(lastOp'.op = "connect" /\ readyState(Cur) \in {CONNECTING, OPEN})
          => UNCHANGED <<ws, sockets, isManuallyDisconnected, reconnectAttempts,
                         isReconnecting, timers>>]_vars

\* connect() was called on an Open connection
C3_Witness ==
    /\ lastOp.op = "connect"
    /\ isConnected(Cur)

\* the calls registry.forEach makes for the handlers hs
Calls(registry, hs, arg) == [k \in 1..Len(hs) |-> <<registry, hs[k], arg>>]

Events == {"open", "message", "error", "close", "timer"}

NoNewTimer == Len(timers') <= Len(timers) /\ Range(timers') \subseteq Range(timers)

\* C4: after disconnect(), and until connect() is called again, isConnected()
\* is false and no step (a late close event of the released socket, a timer
\* that was pending) schedules a reconnect timer or creates a socket.
C4_NoReconnectAfterDisconnect ==
    [][disconnected' => /\ ~isConnected(Cur)'
                        /\ NoNewTimer
                        /\ Len(sockets') = Len(sockets)]_vars

\* a reconnect timer fired after disconnect(), while the close event of a
\* released socket is still to come
C4_Witness ==
    /\ disconnected
    /\ lastOp.op = "timer"
    /\ \E i \in 1..Len(sockets) : sockets[i] = CLOSING

\* C5 (as stated): once disconnect() has been called no event or timer
\* callback invokes any open, message, error or close handler.
C5_NoHandlerAfterDisconnect ==
    (disconnected /\ lastOp.op \in Events) => invoked = <<>>

\* C5 (amended): disconnect() is idempotent and once it has been called no
\* event or timer callback invokes an open or a message handler; the close
\* and error events of the released socket still reach the close and error
\* handlers that are registered.
C5_DisconnectIdempotentOpenMessageSilent ==
    disconnected =>
        /\ \A sync \in BOOLEAN : disconnect(Cur, sync) = Cur
        /\ lastOp.op \in Events =>
              \A k \in 1..Len(invoked) : invoked[k][1] \in {"close", "error"}
        /\ lastOp.op = "timer" => invoked = <<>>

\* the close event of the released socket arrives after disconnect() and
\* invokes a close handler
C5_Witness ==
    /\ disconnected
    /\ lastOp.op = "close"
    /\ invoked # <<>>

SocketIs(i, state) == i <= Len(sockets) /\ sockets[i] = state

\* C6: disconnect() on an Open connection leaves isConnected() false and the
\* close event it causes invokes the registered close handlers: either from
\* inside close(), or the socket is CLOSING, its close event is eventually
\* delivered, and every close event invokes all close handlers in order.
C6_DisconnectInvokesCloseHandlers ==
    /\ [][/\ (lastOp'.op = "disconnect" /\ isConnected(Cur)) =>
                /\ ~isConnected(Cur)'
                /\ \/ invoked' = Calls("close", closeHandlers, NoArg)
                   \/ invoked' = <<>> /\ sockets'[ws] = CLOSING
          /\ lastOp'.op = "close" =>
                /\ invoked' = Calls("close", closeHandlers', NoArg)
                /\ sockets'[lastOp'.arg] = CLOSED]_vars
    /\ \A i \in 1..MaxSockets :
          SocketIs(i, CLOSING) ~> SocketIs(i, CLOSED)

\* disconnect() was called on an Open connection and close handlers ran
C6_Witness ==
    /\ lastOp = Op("disconnect", OPEN)
    /\ closeHandlers # <<>>
    /\ invoked = Calls("close", closeHandlers, NoArg)
    /\ ~isConnected(Cur)

\* C7: send() transmits the encoded command exactly once when the socket is
\* Open and nothing otherwise, and no other step transmits anything (nothing
\* is queued for a later open).
C7_SendOnlyWhenOpen ==
    [][/\ lastOp'.op = "send" =>
             IF isConnected(Cur)
             THEN sent' = Append(sent, <<ws, lastOp'.arg>>) /\ dropped' = dropped
             ELSE sent' = sent /\ dropped' = dropped + 1
       /\ lastOp'.op # "send" => sent' = sent]_vars

\* a command was dropped, the connection opened later, nothing was transmitted
C7_Witness ==
    /\ dropped > 0
    /\ lastOp.op = "open"
    /\ isConnected(Cur)
    /\ sent = <<>>

\* C8: a malformed frame invokes no message handler and changes nothing of
\* the connection (it stays Open) or of the reconnect bookkeeping; a well
\* formed frame, whatever came before it, reaches every message handler.
C8_MalformedFrameDropped ==
    [][lastOp'.op = "message" =>
          IF JSONparse(lastOp'.arg).ok
          THEN invoked' = Calls("message", messageHandlers, JSONparse(lastOp'.arg).value)
          ELSE /\ invoked' = <<>>
               /\ isConnected(Cur)'
               /\ UNCHANGED <<ws, sockets, timers, reconnectAttempts, isReconnecting,
                              isManuallyDisconnected, messageHandlers, errorHandlers,
                              openHandlers, closeHandlers>>]_vars

\* a malformed frame arrived with a message handler registered
C8_Witness ==
    /\ lastOp.op = "message"
    /\ ~JSONparse(lastOp.arg).ok
    /\ messageHandlers # <<>>
    /\ invoked = <<>>
    /\ isConnected(Cur)

\* hs without every occurrence of h, the rest in order
RECURSIVE Others(_, _)
Others(hs, h) ==
    IF hs = <<>> THEN <<>>
    ELSE IF Head(hs) = h THEN Others(Tail(hs), h)
         ELSE <<Head(hs)>> \o Others(Tail(hs), h)

Registry(name) ==
    CASE name = "open" -> openHandlers
      [] name = "message" -> messageHandlers
      [] name = "error" -> errorHandlers
      [] name = "close" -> closeHandlers

Registrar(name) ==
    CASE name = "open" -> "onOpen"
      [] name = "message" -> "onMessage"
      [] name = "error" -> "onError"
      [] name = "close" -> "onClose"

\* C10: clearHandlers() empties the four registries; a handler enters a
\* registry only by its registration call; an event invokes only handlers
\* that are in the registry when it is delivered.  So no handler registered
\* before clearHandlers() is invoked by a later event.
C10_ClearedHandlersSilent ==
    [][/\ lastOp'.op = "clearHandlers" =>
             \A name \in {"open", "message", "error", "close"} : Registry(name)' = <<>>
       /\ \A name \in {"open", "message", "error", "close"}, h \in Handlers :
             (h \notin Range(Registry(name)) /\ h \in Range(Registry(name)'))
                 => lastOp' = Op(Registrar(name), h)
       /\ \A k \in 1..Len(invoked') :
             invoked'[k][2] \in Range(Registry(invoked'[k][1]))]_vars

\* registries were cleared, disconnect() was called, and the late close event
\* of the released socket invoked nothing
C10_Witness ==
    /\ cleared
    /\ disconnected
    /\ lastOp.op = "close"
    /\ invoked = <<>>

\* C11: every transport-open event leaves the attempt counter at 0 and the
\* reconnecting flag cleared; the counter changes in no other way than by a
\* reset to 0 or by the step that schedules a reconnect, which adds one and
\* uses the delay counter x baseDelay.  So the first reconnect scheduled after
\* an open has the delay 1x baseDelay, whatever the counter was before it.
C11_OpenResetsBackoff ==
    [][/\ lastOp'.op = "open" => (reconnectAttempts' = 0 /\ ~isReconnecting')
       /\ Scheduled(Cur, Cur') # <<>> =>
             /\ reconnectAttempts' = reconnectAttempts + 1
             /\ Scheduled(Cur, Cur') = <<reconnectDelay * reconnectAttempts'>>
       /\ Scheduled(Cur, Cur') = <<>> =>
             reconnectAttempts' \in {reconnectAttempts, 0}
       /\ (run.closes = 0 /\ ~run'.void /\ run'.delays # <<>>) =>
             run'.delays = <<reconnectDelay>>]_vars

\* the second socket was open and is lost while the timer of an earlier
\* failure is still pending: the reconnect scheduled now waits 1x baseDelay
C11_Witness ==
    /\ lastOp = Op("close", 2)
    /\ ws = 2
    /\ run = [closes |-> 1, delays |-> <<reconnectDelay>>, void |-> FALSE]
    /\ timers = <<reconnectDelay, reconnectDelay>>
    /\ reconnectAttempts = 1

\* the dispatcher of the specification: Idle or Streaming{buffer}, as it is once
\* every update made so far is rendered
Streaming == Latest(isStreaming)

Buffer == Latest(streamingContent)

Transcript == Latest(messages)

\* what the page shows of the stream: the bubble with the buffer, drawn only
\* while the committed streaming flag is set
Bubble ==
    IF isStreaming.memoizedState
    THEN [shown |-> TRUE, text |-> streamingContent.memoizedState]
    ELSE [shown |-> FALSE, text |-> ""]

Frame(type) == lastOp.op = "handleWebSocketMessage" /\ lastOp.arg.type = type

\* C12: stream_start enters Streaming with an empty buffer; every stream_token
\* received while Streaming appends its token to the buffer and the page shows
\* this buffer when the handler returns, before the next frame is processed;
\* stream_end received while Streaming appends exactly the frame's message to
\* the transcript and leaves the dispatcher Idle.
C12_TokensObservable ==
    [][/\ Frame("stream_start")' => (Streaming' /\ Buffer' = "")
       /\ (Frame("stream_token")' /\ Streaming) =>
             /\ Buffer' = Buffer \o lastOp'.arg.token
             /\ Bubble' = [shown |-> TRUE, text |-> Buffer']
       /\ (Frame("stream_end")' /\ Streaming) =>
             /\ Transcript' = Append(Transcript, lastOp'.arg.message)
             /\ ~Streaming'
             /\ Buffer' = ""]_vars

\* C13: a history frame makes the transcript exactly the frame's message list,
\* in the frame's order, whatever it held before; a message frame appends
\* exactly the frame's message and keeps the earlier messages; the page shows
\* this transcript with the next render.
C13_HistoryReplacesMessageAppends ==
    [][/\ Frame("history")' => Transcript' = lastOp'.arg.messages
       /\ Frame("message")' => Transcript' = Append(Transcript, lastOp'.arg.message)
       /\ lastOp'.op = "render" =>
             (Transcript' = Transcript /\ messages'.memoizedState = Transcript)]_vars

\* a history frame has replaced a transcript that held other messages, one of
\* them already on the page
C13_Witness ==
    /\ Frame("history")
    /\ Transcript = lastOp.arg.messages
    /\ Transcript # <<>>
    /\ messages.memoizedState # <<>>
    /\ messages.memoizedState # Transcript

\* manager k holds a connection or can still open one: its connect timer is
\* pending, one of its sockets is Connecting or Open, or one of its reconnect
\* timers is pending and will call connect()
Alive(k) ==
    \/ k \in connectTimers
    \/ \E i \in 1..Len(managers[k].sockets) :
          managers[k].sockets[i] \in {CONNECTING, OPEN}
    \/ (managers[k].timers # <<>> /\ ~managers[k].isManuallyDisconnected)

SocketsOf(ms, k) == IF k <= Len(ms) THEN Len(ms[k].sockets) ELSE 0

\* what a change of the session id does, in order, to the old and the new manager
Handover(old, new) ==
    << <<"clearTimeout", old>>, <<"clearHandlers", old>>, <<"disconnect", old>>,
       <<"wsRef.current = null", old>>,
       <<"new ChatWebSocket", new>>,
       <<"onMessage", new>>, <<"onOpen", new>>, <<"onClose", new>>, <<"onError", new>>,
       <<"setTimeout", new>> >>

RECURSIVE TotalSockets(_)
TotalSockets(ms) ==
    IF ms = <<>> THEN 0 ELSE Len(Head(ms).sockets) + TotalSockets(Tail(ms))

registries == <<messageHandlers, errorHandlers, openHandlers, closeHandlers>>

\* the last step was the event of this name of the manager's current socket
\* (a message event carries no socket: only the current socket is ever Open)
OfCurrent(name) ==
    IF name = "message"
    THEN lastOp.op = "message" /\ JSONparse(lastOp.arg).ok
    ELSE lastOp = Op(name, ws)

\* C16 as claimed, for a socket that has replaced an earlier one (ws > 1): no
\* connect(), timer or transport event changes a registry, and every open,
\* message, error and close event of the current socket invokes all handlers
\* of its registry, in registration order.
C16_HandlersSurviveReconnect ==
    [][/\ lastOp'.op \in Events \cup {"connect"} => UNCHANGED registries
       /\ ws' > 1 =>
             /\ OfCurrent("open")' => invoked' = Calls("open", openHandlers, NoArg)
             /\ OfCurrent("message")' =>
                   invoked' = Calls("message", messageHandlers, JSONparse(lastOp'.arg).value)
             /\ OfCurrent("error")' => invoked' = Calls("error", errorHandlers, NoArg)
             /\ OfCurrent("close")' => invoked' = Calls("close", closeHandlers, NoArg)]_vars

\* C16, amended: the same for every socket of the manager, the first and the
\* reconnected ones alike, with the error handlers invoked for the error
\* events that find the current socket not Closed, and for no others.
C16_HandlersSurviveReconnectErrorWhileNotClosed ==
    [][/\ lastOp'.op \in Events \cup {"connect"} => UNCHANGED registries
       /\ OfCurrent("open")' => invoked' = Calls("open", openHandlers, NoArg)
       /\ OfCurrent("message")' =>
             invoked' = Calls("message", messageHandlers, JSONparse(lastOp'.arg).value)
       /\ lastOp'.op = "error" =>
             invoked' = IF readyState(Cur) # CLOSED
                        THEN Calls("error", errorHandlers, NoArg)
                        ELSE <<>>
       /\ OfCurrent("close")' => invoked' = Calls("close", closeHandlers, NoArg)]_vars

\* the first socket was lost, the timer has connected again and the second
\* socket opens: both open handlers, registered before the loss, are invoked
C16_Witness ==
    /\ lastOp = Op("open", 2)
    /\ sockets = <<CLOSED, OPEN>>
    /\ timers = <<>>
    /\ Len(openHandlers) = 2
    /\ invoked = Calls("open", openHandlers, NoArg)

\* C17: isConnected() is false before the first connect(); connect() never
\* changes it (the socket it creates is Connecting); it is true after every
\* open event and false after every close event of the current socket and
\* after every disconnect(); nothing else changes it; so it is true exactly
\* while the current socket is Open.
C17_IsConnectedIffOpen ==
    /\ ~isConnected(Cur)
    /\ [][/\ lastOp'.op = "connect" => (isConnected(Cur)' <=> isConnected(Cur))
          /\ lastOp'.op = "open" => isConnected(Cur)'
          /\ lastOp' = Op("close", ws) => ~isConnected(Cur)'
          /\ lastOp'.op = "disconnect" => ~isConnected(Cur)'
          /\ (isConnected(Cur)' # isConnected(Cur)) =>
                \/ lastOp'.op \in {"open", "disconnect"}
                \/ lastOp' = Op("close", ws)
          /\ isConnected(Cur)' <=> (ws' # NULL /\ sockets'[ws'] = OPEN)
          /\ (ws' # NULL /\ sockets'[ws'] = CONNECTING) => ~isConnected(Cur)']_vars

\* the reconnected socket was open and is lost: isConnected() is false again
C17_Witness ==
    /\ lastOp = Op("close", 2)
    /\ ws = 2
    /\ sockets = <<CLOSED, CLOSED>>
    /\ run.closes = 1
    /\ timers = <<reconnectDelay>>
    /\ ~isConnected(Cur)

\* C18: an error event changes nothing but what is invoked: the socket handle,
\* the state of every socket (so the connection state), the counter, the flags,
\* the timers and the registries stay as they are; if it is an event of the
\* manager's current socket and this socket is not Closed, all error handlers
\* are invoked, in order; and a reconnect timer is scheduled by close events only.
C18_ErrorOnlyInvokesHandlers ==
    [][/\ lastOp'.op = "error" =>
             /\ UNCHANGED <<ws, sockets, reconnectAttempts, isReconnecting,
                            isManuallyDisconnected, timers, sent, registries>>
             /\ (lastOp'.arg = ws /\ sockets[ws] # CLOSED) =>
                   invoked' = Calls("error", errorHandlers, NoArg)
             /\ \A k \in 1..Len(invoked') : invoked'[k][1] = "error"
       /\ Scheduled(Cur, Cur') # <<>> => lastOp'.op = "close"]_vars

\* an error event of the open socket has invoked both error handlers and the
\* manager is still connected
C18_Witness ==
    /\ lastOp = Op("error", ws)
    /\ isConnected(Cur)
    /\ Len(errorHandlers) = 2
    /\ invoked = Calls("error", errorHandlers, NoArg)
    /\ timers = <<>>

\* C19: a stream_token frame received while the dispatcher is Idle is ignored:
\* the streaming flag, the buffer and the transcript are unchanged.
C19_TokenIgnoredWhenIdle ==
    [][(Frame("stream_token")' /\ ~Streaming) =>
          /\ Streaming' = Streaming
          /\ Buffer' = Buffer
          /\ Transcript' = Transcript]_vars

\* C20: a stream_error frame received while Streaming leaves the dispatcher
\* Idle with an empty buffer and the transcript as it is; the stream_start and
\* stream_token frames before it have not changed the transcript either, so no
\* message is added for the turn, whatever was buffered; with the next render
\* the bubble is gone from the page.
C20_StreamErrorDiscardsBuffer ==
    [][/\ (Frame("stream_error")' /\ Streaming) =>
             /\ ~Streaming'
             /\ Buffer' = ""
             /\ Transcript' = Transcript
       /\ (Frame("stream_start")' \/ Frame("stream_token")') => Transcript' = Transcript
       /\ (lastOp'.op = "render" /\ ~Streaming) =>
             /\ Bubble' = [shown |-> FALSE, text |-> ""]
             /\ messages'.memoizedState = Transcript]_vars

\* a stream_error frame has arrived while the page showed a buffered token:
\* the dispatcher is Idle, the buffer empty and the transcript still empty
C20_Witness ==
    /\ Frame("stream_error")
    /\ Bubble = [shown |-> TRUE, text |-> "Hello"]
    /\ ~Streaming
    /\ Buffer = ""
    /\ Transcript = <<>>

\* C21: a stream_end frame received while Streaming appends the message the
\* frame carries to the transcript, and nothing else, whatever the buffer holds
\* (the content of the frame need not be the accumulated tokens); afterwards the
\* buffer is empty and the dispatcher is Idle.
C21_StreamEndAppendsFrameMessage ==
    [][(Frame("stream_end")' /\ Streaming) =>
          /\ Len(Transcript') = Len(Transcript) + 1
          /\ SubSeq(Transcript', 1, Len(Transcript)) = Transcript
          /\ Transcript'[Len(Transcript')] = lastOp'.arg.message
          /\ Buffer' = ""
          /\ ~Streaming']_vars

\* the page showed the token "Hello" of an active stream when the stream_end
\* frame came with the message "Hello world": this message is the transcript
C21_Witness ==
    /\ Frame("stream_end")
    /\ isStreaming.memoizedState
    /\ streamingContent.memoizedState = "Hello"
    /\ lastOp.arg.message.content = "Hello world"
    /\ Transcript = <<lastOp.arg.message>>
    /\ Buffer = ""
    /\ ~Streaming

\* C22: a stream_start frame received while Streaming leaves the dispatcher
\* Streaming with an empty buffer and the transcript as it is: the tokens of the
\* unfinished stream are gone and no message is added for it.  The stream state
\* is one flag and one buffer, so there is one stream at most: the render that
\* follows draws one bubble, with the buffer of the stream that is active.
C22_StreamStartResetsBuffer ==
    [][/\ (Frame("stream_start")' /\ Streaming) =>
             /\ Streaming'
             /\ Buffer' = ""
             /\ Transcript' = Transcript
       /\ (lastOp'.op = "render" /\ Streaming) =>
             Bubble' = [shown |-> TRUE, text |-> Buffer]]_vars

\* the page showed the token "Hello" of an active stream when a second
\* stream_start frame came: the buffer is empty, the transcript still empty
C22_Witness ==
    /\ Frame("stream_start")
    /\ isStreaming.memoizedState
    /\ streamingContent.memoizedState = "Hello"
    /\ Streaming
    /\ Buffer = ""
    /\ Transcript = <<>>

\* the tags the switch of the handler has a case for
Recognized ==
    {"session_info", "history", "message", "stream_start", "stream_token",
     "stream_end", "stream_error", "error"}

Live == {i \in 1..Len(sockets) : sockets[i] \in {CONNECTING, OPEN}}

\* C24: over every interleaving of connect(), disconnect(), transport events
\* and timers at most one of the sockets the manager has created is Connecting
\* or Open, and it is the manager's current socket.
C24_OneLiveSocket ==
    /\ Cardinality(Live) <= 1
    /\ Live \subseteq {ws}

\* the manager was disconnected and connected again: its first socket is still
\* closing while the second one is open
C24_Witness ==
    /\ sockets = <<CLOSING, OPEN>>
    /\ ws = 2
    /\ lastOp = Op("open", 2)

\* the step is the close or error event of socket i, which disconnect() has
\* released (it was still Closing) while connect() has made another socket the
\* current one
LateEventOfReleased(i) ==
    /\ lastOp' \in {Op("close", i), Op("error", i)}
    /\ i <= Len(sockets)
    /\ sockets[i] = CLOSING
    /\ ws # NULL
    /\ ws # i

\* C25: after disconnect() and connect() the late close or error event of the
\* released socket invokes no handler, leaves the attempt counter and the
\* reconnecting flag as they are and schedules no timer; and an unexpected
\* close of the current socket, with a counter below the maximum, schedules a
\* reconnect whenever such a late event came before it.
C25_EventsOfReleasedSocketInert ==
    [][/\ \A i \in 1..Len(sockets) :
             LateEventOfReleased(i) =>
                /\ invoked' = <<>>
                /\ UNCHANGED <<reconnectAttempts, isReconnecting, timers>>
       /\ (lastOp' = Op("close", ws) /\ Len(sockets) > 1 /\ sockets[ws] = OPEN
             /\ reconnectAttempts < maxReconnectAttempts) =>
             Scheduled(Cur, Cur') # <<>>]_vars

\* the last step was the open event of a socket by which the manager of the
\* session has reconnected after it had lost the connection
Reopened ==
    /\ lastOp.op = "open"
    /\ lastOp.arg[1] = wsRef
    /\ lastOp.arg[2] > 1

\* C26: a stream that was active when the connection was lost does not stay
\* active: when the connection of the session opens again the dispatcher is
\* Idle, and with the render that follows the input is enabled, without a
\* stream_end or stream_error frame.  (That the buffer is discarded as well is
\* left out: it is not needed to refute the claim.)
C26_LostConnectionEndsStream ==
    [][/\ Reopened' => ~Streaming'
       /\ (Reopened /\ lastOp'.op = "render") => InputEnabled(Comp)']_vars

\* C27: whenever the connection status of the component is "connected", once
\* every queued update is rendered, the manager of the current session exists
\* and its isConnected() is true; this includes the states after a change of
\* the session id in which the socket of the new manager has not opened yet.
C27_ConnectedImpliesOpen ==
    (sessionId # "" /\ Latest(connected)) =>
        (wsRef # NULL /\ isConnected(managers[wsRef]))

\* the step is an event of a socket of a manager that is not the manager of
\* the current session
EventOfOtherSession ==
    /\ lastOp'.op \in {"open", "message", "close"}
    /\ lastOp'.arg[1] # wsRef

\* C28: a change of the session id leaves the transcript empty, the buffer
\* empty and the dispatcher Idle; the managers of the sessions that were left
\* have no handler registered, so that nothing their sockets deliver can reach
\* the component; and no open, message or close event of such a manager
\* changes the transcript, the streaming state or the connection status.
C28_SessionsIsolated ==
    [][/\ (sessionId # "" /\ sessionId' # "" /\ sessionId' # sessionId) =>
             /\ Transcript' = <<>>
             /\ Buffer' = ""
             /\ ~Streaming'
       /\ \A k \in 1..Len(managers') :
             k # wsRef' =>
                /\ managers'[k].messageHandlers = <<>>
                /\ managers'[k].openHandlers = <<>>
                /\ managers'[k].closeHandlers = <<>>
                /\ managers'[k].errorHandlers = <<>>
       /\ EventOfOtherSession =>
             UNCHANGED <<messages, isStreaming, streamingContent, connected>>]_vars

\* the socket of session A, released when the page went to session B, closes
\* after the socket of B has opened: B is shown as connected as before
C28_Witness ==
    /\ lastOp = Op("close", <<1, 1>>)
    /\ wsRef = 2
    /\ managers[1].sessionId # managers[2].sessionId
    /\ sessionId = managers[2].sessionId
    /\ isConnected(managers[2])
    /\ Latest(connected)

\* C29: a stream_end frame received while the dispatcher is Idle adds nothing
\* to the transcript, so every message a stream_end frame adds ends a stream
\* that a stream_start frame has started.
C29_StreamEndIgnoredWhenIdle ==
    [][(Frame("stream_end")' /\ ~Streaming) => Transcript' = Transcript]_vars

\* C30: the current session id is never the id of a session whose delete
\* request has completed, and the completion of the delete of a session that
\* is not the current one leaves the current session id as it is.
C30_DeleteAndSelectInterleaveSafely ==
    [][/\ \A n \in deleted' : toString(n) # sessionId'
       /\ (lastOp'.op = "deleted" /\ toString(lastOp'.arg) # sessionId) =>
             sessionId' = sessionId]_vars

====
